---- MODULE Spec2Model ----
(***************************************************************************)
(* Model of docker-backup.py: the orchestration driver main() and the      *)
(* phases it sequences (compose_action, create_archive,                    *)
(* cleanup_local_backups, get_disk_usage, send_email_notification), with   *)
(* the process-wide aggregation state (LOG_MESSAGES, BACKUP_SUCCESSFUL,    *)
(* NEW_ARCHIVES, DELETED_FILES, DELETED_SIZE_BYTES).                       *)
(*                                                                         *)
(* The outcomes of external commands and filesystem operations are the     *)
(* inputs of each step and are drawn nondeterministically.  A Python       *)
(* exception that no handler catches ends the run: pc = "crashed", the     *)
(* interpreter's exit status is 1.                                         *)
(***************************************************************************)
EXTENDS Integers, Sequences, FiniteSets, TLC

\* ---------------------------------------------------------------- bounds
\* number of entries of STACKS (the standalone stack comes on top of them)
NumStacks == 1
\* largest number of paths the find command lists
MaxFiles == 1
\* the same in the specification of the sweep alone
MaxSweepFiles == 3
\* byte counts given to format_bytes on its own: m * 1024^e with m up to
\* MaxMantissa and e up to MaxExponent
MaxMantissa == 1536
MaxExponent == 9
\* longest token list the check of the tar command is examined on
MaxTokens == 3

\* ------------------------------------------------------- configuration
\* names are numbers; the alphabetical order of names is the numeric order.
\* "dockge" (0) sorts before "stack1", "stack2", ... (1, 2, ...)
STACKS == [k \in 1..NumStacks |-> k]
BASE_DIR == "/opt/stacks"
EXTRA_STACK_PATH == [dir |-> "/opt", base |-> 0]
BACKUP_DIR == "/var/backups/docker"

\* os.path.join(dir, name), os.path.basename, os.path.dirname
join(d, n) == [dir |-> d, base |-> n]
basename(p) == p.base
dirname(p) == p.dir

\* main, step 1: the worklist, STACKS in order and then the standalone stack
stacks_to_process ==
    LET listed == [k \in 1..Len(STACKS) |->
                     [name |-> STACKS[k], base_dir |-> BASE_DIR,
                      path |-> join(BASE_DIR, STACKS[k])]]
    IN  IF EXTRA_STACK_PATH.dir # ""
        THEN Append(listed, [name |-> basename(EXTRA_STACK_PATH),
                             base_dir |-> dirname(EXTRA_STACK_PATH),
                             path |-> EXTRA_STACK_PATH])
        ELSE listed

StackIdx == 1..Len(stacks_to_process)
Paths == {stacks_to_process[k].path : k \in StackIdx}

\* ---------------------------------------------------------------- state
VARIABLES
    pc,                 \* position of main
    idx,                \* index of the stack the loop of main is at
    isdir,              \* filesystem: which stack paths are directories
    installed,          \* which of the tools run_command launches are in PATH
    LOG_MESSAGES,       \* the ordered log
    BACKUP_SUCCESSFUL,  \* the success flag
    NEW_ARCHIVES,       \* archive records (path, size_human, size_bytes)
    DELETED_FILES,      \* deletion records
    DELETED_SIZE_BYTES, \* freed bytes
    cmds,               \* history: external processes launched
    calls,              \* history: phases entered by main
    disk,               \* result of get_disk_usage
    report,             \* the composed report and what became of it
    uncaught,           \* the exception that escaped main and where, if one did
    exitCode,           \* process exit status, -1 while running
    args,               \* the arguments and environment of a function called on its own
    returned            \* what that function returned

vars == <<pc, idx, isdir, installed, LOG_MESSAGES, BACKUP_SUCCESSFUL, NEW_ARCHIVES,
          DELETED_FILES, DELETED_SIZE_BYTES, cmds, calls, disk, report,
         
        uncaught, exitCode, args, returned>>

\* the part of the state the functions below read and write
Ctx == [LOG_MESSAGES |-> LOG_MESSAGES, BACKUP_SUCCESSFUL |-> BACKUP_SUCCESSFUL,
        NEW_ARCHIVES |-> NEW_ARCHIVES, DELETED_FILES |-> DELETED_FILES,
        DELETED_SIZE_BYTES |-> DELETED_SIZE_BYTES, cmds |-> cmds, ret |-> "none"]

SetCtx(c) ==
    /\ LOG_MESSAGES' = c.LOG_MESSAGES
    /\ BACKUP_SUCCESSFUL' = c.BACKUP_SUCCESSFUL
    /\ NEW_ARCHIVES' = c.NEW_ARCHIVES
    /\ DELETED_FILES' = c.DELETED_FILES
    /\ DELETED_SIZE_BYTES' = c.DELETED_SIZE_BYTES
    /\ cmds' = c.cmds

\* ------------------------------------------------------------ format_bytes
\* size_name = ("B", "K", "M", "G", "T", "P", "E", "Z", "Y"), by index
size_name == [u \in 1..9 |-> u - 1]

RECURSIVE Pow1024(_)
Pow1024(i) == IF i = 0 THEN 1 ELSE 1024 * Pow1024(i - 1)

\* A byte count is given as m * 1024^e, so that counts beyond the range of
\* the model checker's integers can be fed in.  With m below 2^53 the count
\* and every quotient of the loop are exact in binary floating point.

\* variant of at_least_1024: the loop goes on only above 1024
more_than_1024(m, e, i) ==
    IF i < e THEN m > 1 \/ (m = 1 /\ i + 1 < e)
    ELSE m > Pow1024(i - e + 1)

\* size_bytes >= 1024 after i divisions by 1024.: the value is m * 1024^(e-i)
at_least_1024(m, e, i) ==
    IF i < e THEN m >= 1
    ELSE (m \div Pow1024(i - e)) >= 1024

RECURSIVE UnitOf(_, _, _)
\* the while loop: divide by 1024. while the value is >= 1024 and a unit is
\* left
UnitOf(m, e, i) ==
    IF at_least_1024(m, e, i) /\ i < Len(size_name) - 1
    THEN UnitOf(m, e, i + 1) ELSE i

\* "%.1f" of n / d: tenths rounded half to even
Tenths(n, d) ==
    LET q == (10 * n) \div d
        r == (10 * n) % d
    IN  IF 2 * r > d \/ (2 * r = d /\ q % 2 = 1) THEN q + 1 ELSE q

\* format_bytes(m * 1024^e): the text as [whole, tenth, unit], tenth = -1
\* when no decimal is printed
format_scaled(m, e) ==
    IF m = 0 THEN [whole |-> 0, tenth |-> -1, unit |-> 0]
    ELSE LET i == UnitOf(m, e, 0)
         IN  IF i = 0 THEN [whole |-> m * Pow1024(e), tenth |-> -1, unit |-> 0]
             ELSE IF i <= e
             THEN [whole |-> m * Pow1024(e - i), tenth |-> 0, unit |-> i]
             ELSE LET t == Tenths(m, Pow1024(i - e))
                  IN  [whole |-> t \div 10, tenth |-> t % 10, unit |-> i]

format_bytes(size_bytes) == format_scaled(size_bytes, 0)

\* ------------------------------------------------------------ exceptions
\* a function's ret when an exception leaves it: which exception it was
OSErrorMakedirs == "raise OSError (os.makedirs)"
OSErrorSubprocess == "raise OSError (subprocess.run)"
AttributeErrorStderr == "raise AttributeError (e.stderr is None)"
Raised(ret) == ret \in {OSErrorMakedirs, OSErrorSubprocess, AttributeErrorStderr}

\* ---------------------------------------------------------------- log
Entry(level, message, about) == [level |-> level, message |-> message, about |-> about]

\* variant of log: the flag follows the level of the latest entry
log_nolatch(c, message, about, level) ==
    [c EXCEPT !.LOG_MESSAGES = Append(@, Entry(level, message, about)),
              !.BACKUP_SUCCESSFUL = (level # "ERROR")]

\* log(message, level): append the entry, an ERROR clears the success flag
log(c, message, about, level) ==
    [c EXCEPT !.LOG_MESSAGES = Append(@, Entry(level, message, about)),
              !.BACKUP_SUCCESSFUL = IF level = "ERROR" THEN FALSE ELSE @]

\* ---------------------------------------------------------------- run_command
\* the tools run_command is called with
Tools == {"docker", "tar", "df"}

\* outcomes of subprocess.run(..., check=True) for a tool that is in PATH:
\* exit status 0, CalledProcessError, another OSError at launch
RunOutcomes == {"ok", "nonzero", "oserror"}

\* variant of run_command: a command that exits nonzero is run a second time
run_command_retry(c, command, about, outcome) ==
    LET c1 == log(c, "Starting command", about, "INFO")
        c2 == [c1 EXCEPT !.cmds = Append(@, command)]
    IN  CASE ~installed[command.tool] ->
                [log(c2, "Command not found", about, "ERROR") EXCEPT !.ret = "None"]
          [] outcome = "ok" ->
                [log(c2, "Successfully finished", about, "INFO") EXCEPT !.ret = "out"]
          [] outcome = "nonzero" ->
                [log([c2 EXCEPT !.cmds = Append(@, command)], "Failed", about, "ERROR")
                   EXCEPT !.ret = "None"]
          [] OTHER -> [c2 EXCEPT !.ret = OSErrorSubprocess]

\* run_command(command, description): ret is "out" (stdout returned), "None",
\* or the exception when subprocess.run raises something other than
\* CalledProcessError and FileNotFoundError (e.g. PermissionError).
\* A tool that is not in PATH makes subprocess.run raise FileNotFoundError.
run_command(c, command, about, outcome) ==
    LET c1 == log(c, "Starting command", about, "INFO")
        c2 == [c1 EXCEPT !.cmds = Append(@, command)]
    IN  CASE ~installed[command.tool] ->
                [log(c2, "Command not found", about, "ERROR") EXCEPT !.ret = "None"]
          [] outcome = "ok" ->
                [log(c2, "Successfully finished", about, "INFO") EXCEPT !.ret = "out"]
          [] outcome = "nonzero" ->
                [log(c2, "Failed", about, "ERROR") EXCEPT !.ret = "None"]
          [] OTHER -> [c2 EXCEPT !.ret = OSErrorSubprocess]

\* ---------------------------------------------------------------- compose_action
Cmd(tool, arg, about) == [tool |-> tool, arg |-> arg, about |-> about]

\* variant of compose_action: a missing directory is a hard failure
compose_action_strict(c, stack_path, action, outcome) ==
    IF ~isdir[stack_path]
    THEN [log(c, "Stack directory not found", basename(stack_path), "ERROR")
            EXCEPT !.ret = "False"]
    ELSE LET action_text == IF action = "down" THEN "Stopping" ELSE "Starting"
             c1 == log(c, action_text, basename(stack_path), "INFO")
             cmd == Cmd("docker", IF action = "up" THEN <<action, "-d">> ELSE <<action>>,
                        basename(stack_path))
             r == run_command(c1, cmd, basename(stack_path), outcome)
         IN  IF Raised(r.ret) THEN r
             ELSE [r EXCEPT !.ret = IF r.ret # "None" THEN "True" ELSE "False"]

\* compose_action(stack_path, action): ret is "True" / "False", or an exception
compose_action(c, stack_path, action, outcome) ==
    IF ~isdir[stack_path]
    THEN [log(c, "Stack directory not found. Skipping", basename(stack_path), "WARNING")
            EXCEPT !.ret = "True"]
    ELSE LET action_text == IF action = "down" THEN "Stopping" ELSE "Starting"
             c1 == log(c, action_text, basename(stack_path), "INFO")
             cmd == Cmd("docker", IF action = "up" THEN <<action, "-d">> ELSE <<action>>,
                        basename(stack_path))
             r == run_command(c1, cmd, basename(stack_path), outcome)
         IN  IF Raised(r.ret) THEN r
             ELSE [r EXCEPT !.ret = IF r.ret # "None" THEN "True" ELSE "False"]

\* ---------------------------------------------------------------- create_archive
\* str.split() of one path component: no token when it is empty
Split(x) == IF x = "" THEN <<>> ELSE <<x>>

\* "-C" in command_list, and command_list.index("-C")
HasFlagC(command_list) == \E k \in 1..Len(command_list) : command_list[k] = "-C"
IndexC(command_list) ==
    CHOOSE k \in 1..Len(command_list) :
        /\ command_list[k] = "-C"
        /\ \A j \in 1..(k - 1) : command_list[j] # "-C"

\* outcomes of os.makedirs(..., exist_ok=True) and of os.path.getsize
MkdirOutcomes == {"ok", "oserror"}
SizeOutcomes == {"ok", "oserror"}

\* the size in bytes of the archive tar wrote for a stack: a different one
\* for each stack
ArchiveSize(archive_name) == archive_name + 1

\* the empty string as a stack name; it sorts before every other name
EmptyName == -1

\* cmd.split() of the tar command line: target_filename is never empty,
\* archive_root_dir and archive_name are tokens unless they are empty
tar_command(archive_root_dir, archive_name) ==
    <<"tar", "-c", "-f">> \o <<"target_filename">> \o <<"-C">>
    \o Split(archive_root_dir)
    \o (IF archive_name = EmptyName THEN <<>> ELSE <<"archive_name">>)

\* variant of command_valid: the command is run as it is
command_valid_any(command_list) == TRUE

\* the check of the command before execution: FALSE is the branch that logs
\* the internal error; a list without "-C" goes to run_command
command_valid(command_list) ==
    IF HasFlagC(command_list)
    THEN IndexC(command_list) + 1 <= Len(command_list)
    ELSE TRUE

\* variant of archive_result: the record is appended whatever tar returned
archive_result_always(r, stack_name, archive_name, getsize) ==
    LET size_bytes == IF getsize = "ok" THEN ArchiveSize(archive_name) ELSE 0
        size_human == IF getsize = "ok" THEN format_bytes(size_bytes)
                      ELSE [whole |-> -1, tenth |-> -1, unit |-> -1]
        record == [path |-> archive_name, size_human |-> size_human,
                   size_bytes |-> size_bytes]
    IN  IF Raised(r.ret) THEN r
        ELSE IF r.ret # "None"
        THEN [log(r, "Archive created successfully", stack_name, "INFO")
                EXCEPT !.NEW_ARCHIVES = Append(@, record), !.ret = "True"]
        ELSE [r EXCEPT !.NEW_ARCHIVES = Append(@, record), !.ret = "False"]

\* create_archive after run_command: the size of the archive ("N/A" and 0
\* when os.path.getsize raises), the record, the result
archive_result(r, stack_name, archive_name, getsize) ==
    LET size_bytes == IF getsize = "ok" THEN ArchiveSize(archive_name) ELSE 0
        size_human == IF getsize = "ok" THEN format_bytes(size_bytes)
                      ELSE [whole |-> -1, tenth |-> -1, unit |-> -1]
        record == [path |-> archive_name, size_human |-> size_human,
                   size_bytes |-> size_bytes]
    IN  IF Raised(r.ret) THEN r
        ELSE IF r.ret # "None"
        THEN [log(r, "Archive created successfully", stack_name, "INFO")
                EXCEPT !.NEW_ARCHIVES = Append(@, record), !.ret = "True"]
        ELSE [r EXCEPT !.ret = "False"]

\* create_archive(stack_name, base_dir, stack_path): ret is "True" / "False",
\* or an exception.  getsize tells whether os.path.getsize returns or raises
create_archive(c, stack_name, base_dir, stack_path, mkdir, outcome, getsize) ==
    LET archive_name == IF stack_path = EXTRA_STACK_PATH
                        THEN basename(stack_path) ELSE stack_name
        archive_root_dir == IF stack_path = EXTRA_STACK_PATH
                            THEN dirname(stack_path) ELSE base_dir
        c1 == log(c, "Creating uncompressed archive", archive_name, "INFO")
        command_list == tar_command(archive_root_dir, archive_name)
        cmd == Cmd("tar", command_list, archive_name)
        run == run_command(c1, cmd, archive_name, outcome)
    IN  IF mkdir # "ok" THEN [c EXCEPT !.ret = OSErrorMakedirs]
        ELSE IF command_valid(command_list)
        THEN archive_result(run, stack_name, archive_name, getsize)
        ELSE [log(c1, "Internal Error: -C flag not followed by a directory",
                  archive_name, "ERROR") EXCEPT !.ret = "False"]

\* ---------------------------------------------------------------- cleanup_local_backups
\* what happens to one listed file: getsize and remove succeed, the file is
\* gone (FileNotFoundError), or another OSError (permission denied)
FileOutcomes == {"removed", "vanished", "denied"}
FileLists ==
    UNION {[1..n -> [path : 1..MaxFiles, res : FileOutcomes]] : n \in 0..MaxFiles}
\* the listings of the specification of the sweep
SweepLists ==
    UNION {[1..n -> [path : 1..MaxSweepFiles, res : FileOutcomes]] : n \in 0..MaxSweepFiles}

\* the size in bytes of a listed file: a different one for each file
FileSize(file_path) == file_path
Distinct(fs) == \A a, b \in 1..Len(fs) : a # b => fs[a].path # fs[b].path

\* variant of remove_file: the size is added to the total as soon as it is
\* read, before os.remove is tried
remove_file_countFirst(c, f) ==
    IF f.res = "removed"
    THEN log([c EXCEPT !.DELETED_SIZE_BYTES = @ + FileSize(f.path),
                       !.DELETED_FILES = Append(@, f.path)],
             "Deleted old backup", f.path, "INFO")
    ELSE IF f.res = "denied"
    THEN log([c EXCEPT !.DELETED_SIZE_BYTES = @ + FileSize(f.path)],
             "Error deleting file", f.path, "ERROR")
    ELSE log(c, "Error deleting file", f.path, "ERROR")

\* the body of the for loop over files_to_delete: getsize, remove, the
\* bookkeeping; the handler for OSError comes first and FileNotFoundError is
\* a subclass of OSError, so a vanished file is handled like any other error
remove_file(c, f) ==
    IF f.res = "removed"
    THEN log([c EXCEPT !.DELETED_SIZE_BYTES = @ + FileSize(f.path),
                       !.DELETED_FILES = Append(@, f.path)],
             "Deleted old backup", f.path, "INFO")
    ELSE log(c, "Error deleting file", f.path, "ERROR")

RECURSIVE Sweep(_, _, _)
\* the for loop over files_to_delete
Sweep(c, files_to_delete, k) ==
    IF k > Len(files_to_delete) THEN c
    ELSE Sweep(remove_file(c, files_to_delete[k]), files_to_delete, k + 1)

FindOutcomes == {"ok", "nonzero", "notfound"}

\* cleanup_local_backups(): never raises
cleanup_local_backups(c, outcome, files_to_delete) ==
    LET c1 == log(c, "Starting local backup cleanup", -1, "INFO")
        c2 == [c1 EXCEPT !.cmds = Append(@, Cmd("find", <<"-mtime">>, -1))]
    IN  CASE outcome = "ok" ->
               LET c3 == Sweep([c2 EXCEPT !.DELETED_SIZE_BYTES = 0], files_to_delete, 1)
               IN  log(c3, "Local cleanup finished", -1, "INFO")
          [] outcome = "nonzero" ->
               log(c2, "Error during find command execution", -1, "ERROR")
          [] OTHER ->
               log(c2, "An unexpected error occurred during cleanup", -1, "ERROR")

\* ---------------------------------------------------------------- get_disk_usage
\* outcomes of subprocess.check_output(du_cmd, text=True)
DuOutcomes == {"ok", "nonzero", "notfound"}

\* get_disk_usage(): ret is "ok" or an exception; the pair it returns is in
\* disk_info (available or not) and backup_content_size (known or "N/A").
\* A df that succeeds prints the header and one line of five fields, and a du
\* that succeeds prints the size.
\* The handler of CalledProcessError evaluates e.stderr.strip() although
\* check_output did not capture stderr (e.stderr is None): AttributeError
get_disk_usage(c, df, backup_isdir, du) ==
    LET r == run_command(c, Cmd("df", <<"-h">>, -1), -1, df)
        c1 == IF Raised(r.ret)
              THEN log(r, "Error getting disk usage via df", -1, "ERROR")
              ELSE r
        disk_info == r.ret = "out"
        c2 == [c1 EXCEPT !.cmds = Append(@, Cmd("du", <<"-sh">>, -1))]
        result(cc, size, ret) ==
            [ctx |-> [cc EXCEPT !.ret = ret], disk_info |-> disk_info,
             backup_content_size |-> size]
    IN  IF ~backup_isdir
        THEN result(log(c1, "Backup directory not found for size calculation", -1,
                        "WARNING"), "N/A", "ok")
        ELSE CASE du = "ok" -> result(c2, "size", "ok")
               [] du = "nonzero" -> result(c2, "N/A", AttributeErrorStderr)
               [] OTHER ->
                    result(log(c2, "An unexpected error occurred during du size check",
                               -1, "ERROR"), "N/A", "ok")

\* ---------------------------------------------------------------- send_email_notification
RECURSIVE SumSizes(_, _)
\* sum(item[2] for item in NEW_ARCHIVES)
SumSizes(archives, k) ==
    IF k > Len(archives) THEN 0 ELSE archives[k].size_bytes + SumSizes(archives, k + 1)

NoReport == [composed |-> FALSE]

\* variant of sort_archives: the records stay in the order of their creation
sort_archives_none(archives) == archives

\* NEW_ARCHIVES.sort(key=lambda x: x[0]): by archive path, which begins with
\* the name of the stack
sort_archives(archives) == SortSeq(archives, LAMBDA a, b : a.path < b.path)

\* variant of send_email_notification: a failed transmission is a WARNING
send_email_notification_warn(c, disk_info, backup_content_size, smtp) ==
    LET status == IF c.BACKUP_SUCCESSFUL THEN "SUCCESS" ELSE "FAILURE"
        c1 == [c EXCEPT !.cmds = Append(@, Cmd("hostname", <<>>, -1))]
        archives == sort_archives(c1.NEW_ARCHIVES)
        deleted == SortSeq(c1.DELETED_FILES, LAMBDA a, b : a < b)
        c2 == [c1 EXCEPT !.NEW_ARCHIVES = archives, !.DELETED_FILES = deleted]
        total_size_bytes == SumSizes(archives, 1)
        rep == [composed |-> TRUE,
                subject |-> status,
                status |-> status,
                archive_rows |-> [k \in 1..Len(archives) |->
                                    [size |-> format_bytes(archives[k].size_bytes),
                                     name |-> archives[k].path]],
                total |-> format_bytes(total_size_bytes),
                disk_info |-> disk_info,
                backup_content_size |-> backup_content_size,
                retention_rows |-> deleted,
                freed |-> format_bytes(c2.DELETED_SIZE_BYTES),
                log_len |-> Len(c2.LOG_MESSAGES),
                sent |-> smtp = "ok"]
        c3 == log(c2, "Sending email notification", -1, "INFO")
        c4 == [c3 EXCEPT !.cmds = Append(@, Cmd("smtp", <<>>, -1))]
    IN  [ctx |-> IF smtp = "ok"
                 THEN log(c4, "Email sent successfully", -1, "INFO")
                 ELSE log(c4, "Failed to send email", -1, "WARNING"),
         report |-> rep]

\* send_email_notification(disk_info, backup_content_size): never raises.
\* The hostname lookup cannot fail the function (bare except): the subject
\* carries a host name either way, which is left out of the state.
\* It sorts NEW_ARCHIVES and DELETED_FILES in place, composes the report from
\* the state as it is then (log_len: the entries of the log it embeds), and
\* only afterwards talks to the mail relay.
send_email_notification(c, disk_info, backup_content_size, smtp) ==
    LET status == IF c.BACKUP_SUCCESSFUL THEN "SUCCESS" ELSE "FAILURE"
        c1 == [c EXCEPT !.cmds = Append(@, Cmd("hostname", <<>>, -1))]
        archives == sort_archives(c1.NEW_ARCHIVES)
        deleted == SortSeq(c1.DELETED_FILES, LAMBDA a, b : a < b)
        c2 == [c1 EXCEPT !.NEW_ARCHIVES = archives, !.DELETED_FILES = deleted]
        total_size_bytes == SumSizes(archives, 1)
        rep == [composed |-> TRUE,
                subject |-> status,
                status |-> status,
                archive_rows |-> [k \in 1..Len(archives) |->
                                    [size |-> format_bytes(archives[k].size_bytes),
                                     name |-> archives[k].path]],
                total |-> format_bytes(total_size_bytes),
                disk_info |-> disk_info,
                backup_content_size |-> backup_content_size,
                retention_rows |-> deleted,
                freed |-> format_bytes(c2.DELETED_SIZE_BYTES),
                log_len |-> Len(c2.LOG_MESSAGES),
                sent |-> smtp = "ok"]
        c3 == log(c2, "Sending email notification", -1, "INFO")
        c4 == [c3 EXCEPT !.cmds = Append(@, Cmd("smtp", <<>>, -1))]
    IN  [ctx |-> IF smtp = "ok"
                 THEN log(c4, "Email sent successfully", -1, "INFO")
                 ELSE log(c4, "Failed to send email", -1, "ERROR"),
         report |-> rep]

\* ---------------------------------------------------------------- main
Init ==
    /\ pc = "start"
    /\ idx = 1
    /\ isdir \in [Paths -> BOOLEAN]
    /\ installed \in [Tools -> BOOLEAN]
    /\ LOG_MESSAGES = <<>>
    /\ BACKUP_SUCCESSFUL = TRUE
    /\ NEW_ARCHIVES = <<>>
    /\ DELETED_FILES = <<>>
    /\ DELETED_SIZE_BYTES = 0
    /\ cmds = <<>>
    /\ calls = <<>>
    /\ disk = [disk_info |-> FALSE, backup_content_size |-> "N/A"]
    /\ report = NoReport
    /\ uncaught = [at |-> "none", exc |-> "none"]
    /\ exitCode = -1
    /\ args = <<>>
    /\ returned = "none"

Call(fn, about, ret) == [fn |-> fn, about |-> about, ret |-> ret]

\* an exception no handler catches: traceback, interpreter exit status 1
Crash(c, where) ==
    /\ SetCtx(c)
    /\ pc' = "crashed"
    /\ uncaught' = [at |-> where, exc |-> c.ret]
    /\ exitCode' = 1

\* the for loop moves to the next stack, or past the loop to phase 2
NextStack ==
    IF idx < Len(stacks_to_process)
    THEN pc' = "loop" /\ idx' = idx + 1
    ELSE pc' = "cleanup" /\ idx' = idx

\* main up to the loop: header, phase 0, os.makedirs(BACKUP_DIR), the worklist
Phase0 ==
    /\ pc = "start"
    /\ \E mkdir \in MkdirOutcomes :
         LET c0 == [Ctx EXCEPT !.LOG_MESSAGES = Append(@, Entry("NONE", "header", -1))]
             c1 == log(c0, "Phase 0: Initializing directories", -1, "INFO")
             c2 == log(c1, "Phase 1: Processing stacks sequentially", -1, "INFO")
         IN  IF mkdir # "ok"
             THEN Crash([c1 EXCEPT !.ret = OSErrorMakedirs], "phase0") /\ idx' = idx
             ELSE /\ SetCtx(c2)
                  /\ idx' = 1
                  /\ pc' = IF Len(stacks_to_process) > 0 THEN "loop" ELSE "cleanup"
                  /\ UNCHANGED <<uncaught, exitCode>>
    /\ UNCHANGED <<isdir, installed, calls, disk, report, args, returned>>

\* head of the loop body
LoopHead ==
    /\ pc = "loop"
    /\ SetCtx(log(Ctx, "Starting backup for stack", stacks_to_process[idx].name, "INFO"))
    /\ pc' = "down"
    /\ UNCHANGED <<idx, isdir, installed, calls, disk, report,
        uncaught, exitCode, args, returned>>

\* variant of Stop: a failed stop does not cancel the archive and the start
Stop_noSkip ==
    /\ pc = "down"
    /\ \E outcome \in RunOutcomes :
         LET stack_info == stacks_to_process[idx]
             r == compose_action(Ctx, stack_info.path, "down", outcome)
         IN  /\ calls' = Append(calls, Call("down", stack_info.name, r.ret))
             /\ CASE Raised(r.ret) -> Crash(r, "down") /\ idx' = idx
                  [] r.ret = "True" ->
                       /\ SetCtx(r)
                       /\ pc' = "archive"
                       /\ UNCHANGED <<idx, uncaught, exitCode>>
                  [] OTHER ->
                       /\ SetCtx(log(r, "Skipping archive and start", stack_info.name,
                                     "WARNING"))
                       /\ pc' = "archive"
                       /\ UNCHANGED <<idx, uncaught, exitCode>>
    /\ UNCHANGED <<isdir, installed, disk, report, args, returned>>

\* 2.1 compose_action(stack_path, "down") and the branch on its result
Stop ==
    /\ pc = "down"
    /\ \E outcome \in RunOutcomes :
         LET stack_info == stacks_to_process[idx]
             r == compose_action(Ctx, stack_info.path, "down", outcome)
         IN  /\ calls' = Append(calls, Call("down", stack_info.name, r.ret))
             /\ CASE Raised(r.ret) -> Crash(r, "down") /\ idx' = idx
                  [] r.ret = "True" ->
                       /\ SetCtx(r)
                       /\ pc' = "archive"
                       /\ UNCHANGED <<idx, uncaught, exitCode>>
                  [] OTHER ->
                       /\ SetCtx(log(r, "Skipping archive and start", stack_info.name,
                                     "WARNING"))
                       /\ NextStack
                       /\ UNCHANGED <<uncaught, exitCode>>
    /\ UNCHANGED <<isdir, installed, disk, report, args, returned>>

\* variant of Archive: a failed archive moves on to the next stack without
\* the start of this one
Archive_noRestart ==
    /\ pc = "archive"
    /\ \E mkdir \in MkdirOutcomes, outcome \in RunOutcomes, getsize \in SizeOutcomes :
         LET stack_info == stacks_to_process[idx]
             r == create_archive(Ctx, stack_info.name, stack_info.base_dir,
                                 stack_info.path, mkdir, outcome, getsize)
         IN  /\ calls' = Append(calls, Call("archive", stack_info.name, r.ret))
             /\ CASE Raised(r.ret) -> Crash(r, "archive") /\ idx' = idx
                  [] r.ret = "True" ->
                       /\ SetCtx(r)
                       /\ pc' = "up"
                       /\ UNCHANGED <<idx, uncaught, exitCode>>
                  [] OTHER ->
                       /\ SetCtx(log(r, "Archiving failed. Attempting to restart",
                                     stack_info.name, "ERROR"))
                       /\ NextStack
                       /\ UNCHANGED <<uncaught, exitCode>>
    /\ UNCHANGED <<isdir, installed, disk, report, args, returned>>

\* 2.2 create_archive(...) and the branch on its result
Archive ==
    /\ pc = "archive"
    /\ \E mkdir \in MkdirOutcomes, outcome \in RunOutcomes, getsize \in SizeOutcomes :
         LET stack_info == stacks_to_process[idx]
             r == create_archive(Ctx, stack_info.name, stack_info.base_dir,
                                 stack_info.path, mkdir, outcome, getsize)
         IN  /\ calls' = Append(calls, Call("archive", stack_info.name, r.ret))
             /\ CASE Raised(r.ret) -> Crash(r, "archive")
                  [] r.ret = "True" ->
                       /\ SetCtx(r)
                       /\ pc' = "up"
                       /\ UNCHANGED <<uncaught, exitCode>>
                  [] OTHER ->
                       /\ SetCtx(log(r, "Archiving failed. Attempting to restart",
                                     stack_info.name, "ERROR"))
                       /\ pc' = "up"
                       /\ UNCHANGED <<uncaught, exitCode>>
    /\ UNCHANGED <<idx, isdir, installed, disk, report, args, returned>>

\* 2.3 compose_action(stack_path, "up"); its result is not looked at
Start ==
    /\ pc = "up"
    /\ \E outcome \in RunOutcomes :
         LET stack_info == stacks_to_process[idx]
             r == compose_action(Ctx, stack_info.path, "up", outcome)
         IN  /\ calls' = Append(calls, Call("up", stack_info.name, r.ret))
             /\ IF Raised(r.ret)
                THEN Crash(r, "up") /\ idx' = idx
                ELSE SetCtx(r) /\ NextStack /\ UNCHANGED <<uncaught, exitCode>>
    /\ UNCHANGED <<isdir, installed, disk, report, args, returned>>

\* 3. phase 2: cleanup_local_backups()
Cleanup ==
    /\ pc = "cleanup"
    /\ \E outcome \in FindOutcomes, files \in FileLists :
         /\ Distinct(files)
         /\ outcome # "ok" => files = <<>>
         /\ SetCtx(cleanup_local_backups(
                     log(Ctx, "Phase 2: Running local retention cleanup", -1, "INFO"),
                     outcome, files))
    /\ pc' = "disk"
    /\ calls' = Append(calls, Call("cleanup", -1, "None"))
    /\ UNCHANGED <<idx, isdir, installed, disk, report,
        uncaught, exitCode, args, returned>>

\* 4. phase 3: get_disk_usage()
DiskUsage ==
    /\ pc = "disk"
    /\ \E df \in RunOutcomes, backup_isdir \in BOOLEAN, du \in DuOutcomes :
         LET r == get_disk_usage(
                    log(Ctx, "Phase 3: Finalizing report and sending notification",
                        -1, "INFO"),
                    df, backup_isdir, du)
         IN  /\ disk' = [disk_info |-> r.disk_info,
                         backup_content_size |-> r.backup_content_size]
             /\ IF Raised(r.ctx.ret)
                THEN Crash(r.ctx, "disk")
                ELSE SetCtx(r.ctx) /\ pc' = "email" /\ UNCHANGED <<uncaught, exitCode>>
             /\ calls' = Append(calls, Call("disk", -1, r.ctx.ret))
    /\ UNCHANGED <<idx, isdir, installed, report, args, returned>>

\* send_email_notification(disk_info, backup_content_size)
SendEmail ==
    /\ pc = "email"
    /\ \E smtp \in {"ok", "failed"} :
         LET r == send_email_notification(Ctx, disk.disk_info, disk.backup_content_size,
                                          smtp)
         IN  SetCtx(r.ctx) /\ report' = r.report
    /\ pc' = "end"
    /\ calls' = Append(calls, Call("email", -1, "None"))
    /\ UNCHANGED <<idx, isdir, installed, disk,
        uncaught, exitCode, args, returned>>

\* variant of Finish: a failure to write LOG_FILE is logged as an ERROR
Finish_logWriteError ==
    /\ pc = "end"
    /\ \E written \in BOOLEAN :
         LET c1 == log(Ctx, "DOCKER BACKUP SCRIPT END", -1, "INFO")
             c2 == IF written THEN c1
                   ELSE log(c1, "Could not write to log file", -1, "ERROR")
         IN  /\ SetCtx(c2)
             /\ exitCode' = IF ~c2.BACKUP_SUCCESSFUL THEN 1 ELSE 0
    /\ calls' = calls \o <<Call("logfile", -1, "None"), Call("exit", -1, "None")>>
    /\ pc' = "done"
    /\ UNCHANGED <<idx, isdir, installed, disk, report, uncaught, args, returned>>

\* the end banner, the append to LOG_FILE (a failure to write is caught,
\* printed to stderr and changes nothing of the state), and sys.exit(1) if
\* not BACKUP_SUCCESSFUL, else sys.exit(0)
Finish ==
    /\ pc = "end"
    /\ SetCtx(log(Ctx, "DOCKER BACKUP SCRIPT END", -1, "INFO"))
    /\ calls' = calls \o <<Call("logfile", -1, "None"), Call("exit", -1, "None")>>
    /\ exitCode' = IF ~BACKUP_SUCCESSFUL THEN 1 ELSE 0
    /\ pc' = "done"
    /\ UNCHANGED <<idx, isdir, installed, disk, report, uncaught, args, returned>>

Next ==
    \/ Phase0
    \/ LoopHead
    \/ Stop
    \/ Archive
    \/ Start
    \/ Cleanup
    \/ DiskUsage
    \/ SendEmail
    \/ Finish

Spec == Init /\ [][Next]_vars

Terminated == pc \in {"done", "crashed"}

\* ------------------------------------------- cleanup_local_backups on its own
\* The retention sweep with up to MaxSweepFiles listed files.  It starts
\* where main calls cleanup_local_backups: the deletion records are empty and
\* the freed bytes are 0 as at module load; the stack loop before it has
\* recorded an ERROR or it has not.  args records what find listed and what
\* became of each file.
SweepInit ==
    /\ pc = "cleanup"
    /\ idx = Len(stacks_to_process)
    /\ isdir \in [Paths -> {TRUE}]
    /\ installed \in [Tools -> {TRUE}]
    /\ BACKUP_SUCCESSFUL \in BOOLEAN
    /\ LOG_MESSAGES = IF BACKUP_SUCCESSFUL THEN <<>>
                      ELSE <<Entry("ERROR", "Failed", stacks_to_process[1].name)>>
    /\ NEW_ARCHIVES = <<>>
    /\ DELETED_FILES = <<>>
    /\ DELETED_SIZE_BYTES = 0
    /\ cmds = <<>>
    /\ calls = <<>>
    /\ disk = [disk_info |-> FALSE, backup_content_size |-> "N/A"]
    /\ report = NoReport
    /\ uncaught = [at |-> "none", exc |-> "none"]
    /\ exitCode = -1
    /\ args = <<>>
    /\ returned = "none"

\* cleanup_local_backups(): the find command and the loop over its listing
SweepCleanup ==
    /\ pc = "cleanup"
    /\ \E outcome \in FindOutcomes, files \in SweepLists :
         /\ Distinct(files)
         /\ outcome # "ok" => files = <<>>
         /\ SetCtx(cleanup_local_backups(Ctx, outcome, files))
         /\ args' = files
         /\ returned' = outcome
    /\ pc' = "swept"
    /\ calls' = Append(calls, Call("cleanup", -1, "None"))
    /\ UNCHANGED <<idx, isdir, installed, disk, report, uncaught, exitCode>>

SweepNext == SweepCleanup

SweepSpec == SweepInit /\ [][SweepNext]_vars

\* --------------------------------------------------- format_bytes on its own
\* the module as loaded, and a byte count args.m * 1024^args.e
FormatInit ==
    /\ pc = "format"
    /\ idx = 1
    /\ isdir \in [Paths -> {TRUE}]
    /\ installed \in [Tools -> {TRUE}]
    /\ LOG_MESSAGES = <<>>
    /\ BACKUP_SUCCESSFUL = TRUE
    /\ NEW_ARCHIVES = <<>>
    /\ DELETED_FILES = <<>>
    /\ DELETED_SIZE_BYTES = 0
    /\ cmds = <<>>
    /\ calls = <<>>
    /\ disk = [disk_info |-> FALSE, backup_content_size |-> "N/A"]
    /\ report = NoReport
    /\ uncaught = [at |-> "none", exc |-> "none"]
    /\ exitCode = -1
    /\ args \in [m : 0..MaxMantissa, e : 0..MaxExponent]
    /\ returned = "none"

\* format_bytes(size_bytes)
FormatBytes ==
    /\ pc = "format"
    /\ returned' = format_scaled(args.m, args.e)
    /\ pc' = "formatted"
    /\ UNCHANGED <<idx, isdir, installed, LOG_MESSAGES, BACKUP_SUCCESSFUL, NEW_ARCHIVES,
                   DELETED_FILES, DELETED_SIZE_BYTES, cmds, calls, disk, report,
                   uncaught, exitCode, args>>

FormatNext == FormatBytes

FormatSpec == FormatInit /\ [][FormatNext]_vars

\* ------------------------------------------------- create_archive on its own
\* create_archive(stack_name, base_dir, stack_path) for the arguments main
\* passes under a configuration whose STACKS and BASE_DIR may hold the empty
\* string: args is the entry of the worklist
ArchiveArgs ==
    {[name |-> n, base_dir |-> b, path |-> join(b, n)] :
        n \in {EmptyName} \cup {STACKS[k] : k \in 1..Len(STACKS)}, b \in {"", BASE_DIR}}
    \cup {[name |-> basename(EXTRA_STACK_PATH), base_dir |-> dirname(EXTRA_STACK_PATH),
           path |-> EXTRA_STACK_PATH]}

ArchiveInit ==
    /\ pc = "archive"
    /\ idx = 1
    /\ isdir \in [Paths -> {TRUE}]
    /\ installed \in [Tools -> BOOLEAN]
    /\ LOG_MESSAGES = <<>>
    /\ BACKUP_SUCCESSFUL = TRUE
    /\ NEW_ARCHIVES = <<>>
    /\ DELETED_FILES = <<>>
    /\ DELETED_SIZE_BYTES = 0
    /\ cmds = <<>>
    /\ calls = <<>>
    /\ disk = [disk_info |-> FALSE, backup_content_size |-> "N/A"]
    /\ report = NoReport
    /\ uncaught = [at |-> "none", exc |-> "none"]
    /\ exitCode = -1
    /\ args \in ArchiveArgs
    /\ returned = "none"

\* create_archive(stack_name, base_dir, stack_path)
ArchiveCall ==
    /\ pc = "archive"
    /\ \E mkdir \in MkdirOutcomes, outcome \in RunOutcomes, getsize \in SizeOutcomes :
         LET r == create_archive(Ctx, args.name, args.base_dir, args.path,
                                 mkdir, outcome, getsize)
         IN  SetCtx(r) /\ returned' = r.ret
    /\ pc' = "archived"
    /\ calls' = Append(calls, Call("archive", args.name, "None"))
    /\ UNCHANGED <<idx, isdir, installed, disk, report, uncaught, exitCode, args>>

ArchiveNext == ArchiveCall

ArchiveSpec == ArchiveInit /\ [][ArchiveNext]_vars

\* ================================================================ properties
HasError(entries) == \E k \in 1..Len(entries) : entries[k].level = "ERROR"
Called(fn, about) == \E k \in 1..Len(calls) : calls[k].fn = fn /\ calls[k].about = about
Launched(tool, about) ==
    \E k \in 1..Len(cmds) : cmds[k].tool = tool /\ cmds[k].about = about
Logged(level, message, about) ==
    \E k \in 1..Len(LOG_MESSAGES) : LOG_MESSAGES[k] = Entry(level, message, about)
CountCalls(fn) == Cardinality({k \in 1..Len(calls) : calls[k].fn = fn})

\* the run is over, and every os.makedirs and every launch of a process
\* worked (a command may still have exited nonzero or not been found)
RunOverLaunched == Terminated /\ uncaught.exc \notin {OSErrorMakedirs, OSErrorSubprocess}

\* the run is over, BACKUP_DIR was there or could be created in phase 0 and
\* every launch of a process worked
RunOver == Terminated /\ uncaught.at # "phase0" /\ uncaught.exc # OSErrorSubprocess

\* C1: main ends with exit code 0 if and only if no ERROR entry was recorded
\* during the run, and with exit code 1 otherwise.
C1_ExitCodeIffNoError ==
    RunOverLaunched => /\ exitCode \in {0, 1}
               /\ exitCode = 0 <=> ~HasError(LOG_MESSAGES)

\* C2: when the run is over, every stack whose stop step returned success has
\* had a start attempt after it, whatever the archive step did in between.
C2_StartAfterSuccessfulStop ==
    RunOver =>
      \A k \in 1..Len(calls) :
         (calls[k].fn = "down" /\ calls[k].ret = "True") =>
            \E j \in (k + 1)..Len(calls) :
               calls[j].fn = "up" /\ calls[j].about = calls[k].about

\* C3: a stack whose stop command failed has no archive call, no start call,
\* no tar or start command and no archive record; the skip is logged as a
\* WARNING; the success flag is down, so a report composed in this run says
\* FAILURE in its subject and the run ends with exit code 1.
C3_FailedStopSkipsStack ==
    \A k \in 1..Len(calls) :
       (calls[k].fn = "down" /\ calls[k].ret = "False") =>
          LET s == calls[k].about
          IN  /\ ~Called("archive", s)
              /\ ~Called("up", s)
              /\ ~Launched("tar", s)
              /\ \A j \in 1..Len(cmds) :
                    (cmds[j].tool = "docker" /\ cmds[j].about = s)
                       => cmds[j].arg = <<"down">>
              /\ \A j \in 1..Len(NEW_ARCHIVES) : NEW_ARCHIVES[j].path # s
              /\ Logged("WARNING", "Skipping archive and start", s)
              /\ ~BACKUP_SUCCESSFUL
              /\ report.composed => report.subject = "FAILURE"
              /\ Terminated => exitCode = 1

C3_Witness ==
    /\ pc = "done"
    /\ \E k \in 1..Len(calls) : calls[k].fn = "down" /\ calls[k].ret = "False"
    /\ \E k \in 1..Len(calls) : calls[k].fn = "up" /\ calls[k].ret = "True"
    /\ Len(NEW_ARCHIVES) > 0
    /\ report.composed /\ report.subject = "FAILURE"
    /\ exitCode = 1

\* C4 as stated: a run in which no ERROR was recorded up to the composition of
\* the report and only the transmission of the mail fails ends with exit code 0.
C4_EmailFailureKeepsExitCode0 ==
    (pc = "done" /\ report.composed /\ ~report.sent /\ report.status = "SUCCESS")
       => exitCode = 0

\* C4 amended: a failed transmission is logged as ERROR and clears the success
\* flag like any other ERROR: the status in the report stays what it was when
\* the report was composed (SUCCESS exactly when no ERROR had been recorded
\* by then), and the run ends with exit code 1.
C4_EmailFailureFlipsExitCode ==
    (pc = "done" /\ ~report.sent) =>
       /\ Logged("ERROR", "Failed to send email", -1)
       /\ ~BACKUP_SUCCESSFUL
       /\ exitCode = 1
       /\ report.status = "SUCCESS"
             <=> ~HasError(SubSeq(LOG_MESSAGES, 1, report.log_len))
       /\ report.subject = report.status

C4_Witness ==
    /\ pc = "done"
    /\ report.composed /\ ~report.sent
    /\ report.status = "SUCCESS"
    /\ exitCode = 1

\* C5: for a stack whose directory does not exist no external command is
\* launched and no archive record is created, and apart from the banner of
\* the loop every entry logged about it is a WARNING.
C5_MissingDirectoryIsSkipped ==
    \A k \in StackIdx :
       LET stack_info == stacks_to_process[k]
       IN  ~isdir[stack_info.path] =>
              /\ \A j \in 1..Len(cmds) : cmds[j].about # stack_info.name
              /\ \A j \in 1..Len(NEW_ARCHIVES) : NEW_ARCHIVES[j].path # stack_info.name
              /\ \A j \in 1..Len(LOG_MESSAGES) :
                    (/\ LOG_MESSAGES[j].about = stack_info.name
                     /\ LOG_MESSAGES[j].message # "Starting backup for stack")
                       => LOG_MESSAGES[j].level = "WARNING"

\* C6: a step that calls compose_action ("down" or "up") on a stack directory
\* that does not exist returns success, appends exactly one entry to the log,
\* a WARNING, launches no command and leaves the success flag as it was.
C6_MissingDirComposeAction ==
    [][(pc \in {"down", "up"} /\ ~isdir[stacks_to_process[idx].path]) =>
          /\ Len(LOG_MESSAGES') = Len(LOG_MESSAGES) + 1
          /\ SubSeq(LOG_MESSAGES', 1, Len(LOG_MESSAGES)) = LOG_MESSAGES
          /\ LOG_MESSAGES'[Len(LOG_MESSAGES')].level = "WARNING"
          /\ cmds' = cmds
          /\ BACKUP_SUCCESSFUL' = BACKUP_SUCCESSFUL
          /\ calls' = Append(calls, Call(pc, stacks_to_process[idx].name, "True"))]_vars

C6_Witness ==
    \E k \in StackIdx :
       /\ ~isdir[stacks_to_process[k].path]
       /\ Called("down", stacks_to_process[k].name)
       /\ Called("up", stacks_to_process[k].name)

\* C7: the success flag is false exactly when an ERROR entry is in the log,
\* and once false it is never true again.
C7_FlagIffNoErrorSoFar ==
    /\ [](BACKUP_SUCCESSFUL <=> ~HasError(LOG_MESSAGES))
    /\ [][~BACKUP_SUCCESSFUL => ~BACKUP_SUCCESSFUL']_vars

C7_Witness ==
    /\ ~BACKUP_SUCCESSFUL
    /\ Len(LOG_MESSAGES) > 1
    /\ LOG_MESSAGES[Len(LOG_MESSAGES)].level \in {"INFO", "WARNING"}
    /\ HasError(LOG_MESSAGES)

\* C8: no failure escapes its phase: every run reaches the attempt to send the
\* report, the append to the log file and the exit of main.
C8_NoFailureEscapesItsPhase ==
    RunOverLaunched => /\ pc = "done"
               /\ Called("email", -1)
               /\ Called("logfile", -1)
               /\ Called("exit", -1)

\* C9: when the run is over, the stop step has been attempted for every
\* stack of the worklist, the standalone one included, in list order.
C9_EveryStackStopAttemptedInOrder ==
    RunOver =>
       LET downs == SelectSeq(calls, LAMBDA call : call.fn = "down")
       IN  /\ Len(downs) = Len(stacks_to_process)
           /\ \A k \in StackIdx : downs[k].about = stacks_to_process[k].name

\* C10: pruning starts only after the last stack has been dealt with, and in
\* every run pruning, disk inspection and the report happen exactly once, in
\* that order, followed by the append to the log file and the exit.
C10_GlobalPhasesOnceInOrder ==
    /\ Called("cleanup", -1) =>
          \A k \in StackIdx :
             LET s == stacks_to_process[k].name
             IN  \E j \in 1..Len(calls) :
                    /\ calls[j].about = s
                    /\ \/ calls[j].fn = "up"
                       \/ calls[j].fn = "down" /\ calls[j].ret = "False"
    /\ RunOverLaunched =>
          /\ \A fn \in {"cleanup", "disk", "email", "logfile", "exit"} :
                CountCalls(fn) = 1
          /\ Len(calls) >= 5
          /\ [k \in 1..5 |-> calls[Len(calls) - 5 + k].fn]
                = <<"cleanup", "disk", "email", "logfile", "exit">>

\* the stacks that are down as far as the run knows: their stop returned
\* success and their start has not been attempted
StoppedNotStarted ==
    {calls[k].about : k \in {i \in 1..Len(calls) :
        /\ calls[i].fn = "down" /\ calls[i].ret = "True"
        /\ ~\E j \in (i + 1)..Len(calls) :
              calls[j].fn = "up" /\ calls[j].about = calls[i].about}}

\* C11: at every point at most one stack is between its successful stop and
\* its start attempt, and when the stop of a stack is issued every stack
\* stopped before it was either skipped (its stop failed) or has had a start
\* attempt that returned.
C11_OneStackAtATime ==
    /\ Cardinality(StoppedNotStarted) <= 1
    /\ \A k \in 1..Len(calls) : \A j \in 1..(k - 1) :
          (calls[k].fn = "down" /\ calls[j].fn = "down") =>
             \/ calls[j].ret = "False"
             \/ \E i \in (j + 1)..(k - 1) :
                   /\ calls[i].fn = "up" /\ calls[i].about = calls[j].about
                   /\ ~Raised(calls[i].ret)

\* a second stack is stopped after the archive of the first one failed and
\* its start was attempted
C11_Witness ==
    \E j \in 1..Len(calls) : \E k \in (j + 1)..Len(calls) :
       /\ calls[j].fn = "archive" /\ calls[j].ret = "False"
       /\ calls[k].fn = "down" /\ calls[k].ret = "True"
       /\ calls[k].about # calls[j].about
       /\ StoppedNotStarted = {calls[k].about}

\* the listed files of the sweep that os.remove removed, in listing order
RECURSIVE Removed(_, _)
Removed(files, k) ==
    IF k > Len(files) THEN <<>>
    ELSE IF files[k].res = "removed" THEN <<files[k].path>> \o Removed(files, k + 1)
    ELSE Removed(files, k + 1)

RECURSIVE SumFileSizes(_, _)
SumFileSizes(paths, k) ==
    IF k > Len(paths) THEN 0 ELSE FileSize(paths[k]) + SumFileSizes(paths, k + 1)

\* C12: after the sweep, a listed file that had vanished before it could be
\* sized or removed has a WARNING entry and no ERROR entry, and a listed
\* file whose deletion failed with another OS error has an ERROR entry.
C12_VanishedFileIsWarning ==
    pc = "swept" =>
      \A k \in 1..Len(args) :
         /\ args[k].res = "vanished" =>
               /\ Logged("WARNING", "File not found during cleanup", args[k].path)
               /\ ~Logged("ERROR", "Error deleting file", args[k].path)
         /\ args[k].res = "denied" =>
               Logged("ERROR", "Error deleting file", args[k].path)

\* C13: after the sweep every listed file has been processed (it has its
\* "Deleted" or its "Error deleting" entry), the deletion records are
\* exactly the listed files whose removal succeeded, in listing order, and
\* the freed bytes are the sum of the sizes of exactly those files.
C13_SweepNeverAborts ==
    pc = "swept" =>
      /\ \A k \in 1..Len(args) :
            IF args[k].res = "removed"
            THEN Logged("INFO", "Deleted old backup", args[k].path)
            ELSE Logged("ERROR", "Error deleting file", args[k].path)
      /\ DELETED_FILES = Removed(args, 1)
      /\ DELETED_SIZE_BYTES = SumFileSizes(Removed(args, 1), 1)
      /\ returned = "ok" => Logged("INFO", "Local cleanup finished", -1)

\* a sweep in which one file could not be removed and files listed before
\* and after it were
C13_Witness ==
    /\ pc = "swept"
    /\ \E i, j, k \in 1..Len(args) :
          /\ i < j /\ j < k
          /\ args[i].res = "removed" /\ args[j].res = "denied"
          /\ args[k].res = "removed"
    /\ Len(DELETED_FILES) = 2

\* C14: at every point the archive records are as many as the archive steps
\* that have returned success, one per such stack; a stack whose archive
\* step returned failure, or whose stop failed, has no record; a record
\* whose size could not be read (size "N/A", 0 bytes) belongs to an archive
\* step that returned success.
C14_OneRecordPerArchivedStack ==
    LET HasRecord(s) == \E j \in 1..Len(NEW_ARCHIVES) : NEW_ARCHIVES[j].path = s
    IN  /\ Len(NEW_ARCHIVES) =
             Cardinality({k \in 1..Len(calls) :
                            calls[k].fn = "archive" /\ calls[k].ret = "True"})
        /\ \A i, j \in 1..Len(NEW_ARCHIVES) :
              i # j => NEW_ARCHIVES[i].path # NEW_ARCHIVES[j].path
        /\ \A k \in 1..Len(calls) :
              /\ (calls[k].fn = "archive" /\ calls[k].ret = "True")
                    => HasRecord(calls[k].about)
              /\ (calls[k].fn = "archive" /\ calls[k].ret # "True")
                    => ~HasRecord(calls[k].about)
              /\ (calls[k].fn = "down" /\ calls[k].ret # "True")
                    => ~HasRecord(calls[k].about)
        /\ \A j \in 1..Len(NEW_ARCHIVES) :
              NEW_ARCHIVES[j].size_human.unit = -1 =>
                 /\ NEW_ARCHIVES[j].size_bytes = 0
                 /\ \E k \in 1..Len(calls) :
                       /\ calls[k].fn = "archive" /\ calls[k].ret = "True"
                       /\ calls[k].about = NEW_ARCHIVES[j].path

\* one stack archived with its size unreadable, another one whose tar failed
C14_Witness ==
    /\ \E j \in 1..Len(NEW_ARCHIVES) : NEW_ARCHIVES[j].size_human.unit = -1
    /\ \E k \in 1..Len(calls) :
          /\ calls[k].fn = "archive" /\ calls[k].ret = "False"
          /\ Launched("tar", calls[k].about)
    /\ Len(NEW_ARCHIVES) = 1
    /\ pc = "done"

\* a finished run in which every stack directory was there, every command
\* that was run succeeded (docker, tar, df, find, du), find listed nothing
\* and the report was transmitted
C15_CleanRun ==
    /\ pc = "done"
    /\ \A p \in Paths : isdir[p]
    /\ \A k \in 1..Len(LOG_MESSAGES) :
          LOG_MESSAGES[k].message \notin
             {"Command not found", "Failed", "Error getting disk usage via df",
              "An unexpected error occurred during du size check",
              "Deleted old backup", "Error deleting file"}
    /\ Logged("INFO", "Local cleanup finished", -1)
    /\ report.composed /\ report.sent

\* C15: in such a run the report has one archive row per processed stack,
\* in ascending order of archive path whatever the order of creation, each
\* row showing the size of its record; the total row is the sum of the byte
\* sizes of the rows; the retention section is empty; the exit code is 0.
C15_CleanRunReport ==
    C15_CleanRun =>
      LET rows == report.archive_rows
      IN  /\ Len(rows) = Len(stacks_to_process)
          /\ {rows[k].name : k \in 1..Len(rows)} =
                {stacks_to_process[k].name : k \in StackIdx}
          /\ \A i, j \in 1..Len(rows) : i < j => rows[i].name < rows[j].name
          /\ Len(NEW_ARCHIVES) = Len(rows)
          /\ \A k \in 1..Len(rows) :
                /\ rows[k].name = NEW_ARCHIVES[k].path
                /\ rows[k].size = format_bytes(NEW_ARCHIVES[k].size_bytes)
          /\ report.total = format_bytes(SumSizes(NEW_ARCHIVES, 1))
          /\ report.retention_rows = <<>> /\ DELETED_FILES = <<>>
          /\ exitCode = 0

\* such a run, in which the archives were not created in alphabetical order
C15_Witness ==
    /\ C15_CleanRun
    /\ \E j \in 1..Len(calls) : \E k \in (j + 1)..Len(calls) :
          /\ calls[j].fn = "archive" /\ calls[k].fn = "archive"
          /\ calls[k].about < calls[j].about
    /\ report.total.whole > 0

\* the number of times m can be divided by 1024 before it is below 1024
RECURSIVE Magnitude(_)
Magnitude(m) == IF m < 1024 THEN 0 ELSE 1 + Magnitude(m \div 1024)

\* the unit at which args.m * 1024^args.e, divided by 1024 per unit step,
\* first is below 1024
FirstUnitBelow1024 == args.e + Magnitude(args.m)

\* the printed number is the value in unit u: the count itself for bytes,
\* else one decimal that is within half a tenth of count / 1024^u
RenderedIn(u) ==
    IF u = 0
    THEN returned.tenth = -1 /\ returned.whole = args.m * Pow1024(args.e)
    ELSE LET t == 10 * returned.whole + returned.tenth
             d == Pow1024(Magnitude(args.m))
             diff == 10 * args.m - t * d
         IN  /\ returned.tenth \in 0..9
             /\ 2 * diff <= d /\ 2 * diff >= -d

\* the examples of the docstring and of the claim
FormatExamples ==
    /\ (args.m = 0) => returned = [whole |-> 0, tenth |-> -1, unit |-> 0]
    /\ (args.m = 1023 /\ args.e = 0) =>
          returned = [whole |-> 1023, tenth |-> -1, unit |-> 0]
    /\ (args.m = 1024 /\ args.e = 0) => returned = [whole |-> 1, tenth |-> 0, unit |-> 1]
    /\ (args.m = 1536 /\ args.e = 0) => returned = [whole |-> 1, tenth |-> 5, unit |-> 1]
    /\ (args.m = 1 /\ args.e = 3) => returned = [whole |-> 1, tenth |-> 0, unit |-> 3]

\* C16, as claimed: for every byte count the output is in the unit at which
\* the scaled value is below 1024 (the first such unit), an integer for
\* bytes and one decimal otherwise.
C16_ScaledValueBelow1024 ==
    (pc = "formatted" /\ args.m > 0) =>
       /\ returned.unit = FirstUnitBelow1024
       /\ RenderedIn(returned.unit)

\* C16, amended: that holds for the byte counts below 1024^9; from 1024^9
\* on the unit stays Y and the printed value is 1024 or more; 0 is "0B".
C16_UnitUpToY ==
    pc = "formatted" =>
       /\ FormatExamples
       /\ (args.m > 0 /\ FirstUnitBelow1024 <= Len(size_name) - 1) =>
             /\ returned.unit = FirstUnitBelow1024
             /\ RenderedIn(returned.unit)
             /\ returned.unit > 0 => returned.whole \in 1..1023
       /\ (args.m > 0 /\ FirstUnitBelow1024 > Len(size_name) - 1) =>
             /\ returned.unit = Len(size_name) - 1
             /\ returned.whole >= 1024
             /\ returned.tenth \in 0..9

\* 1536 * 1024^7 bytes are printed as "1.5Y"
C16_Witness ==
    /\ pc = "formatted"
    /\ args = [m |-> 1536, e |-> 7]
    /\ returned = [whole |-> 1, tenth |-> 5, unit |-> 8]

\* the token list create_archive assembles for the worklist entry a
CommandOf(a) ==
    IF a.path = EXTRA_STACK_PATH
    THEN tar_command(dirname(a.path), basename(a.path))
    ELSE tar_command(a.base_dir, a.name)

\* the list holds the flag -C followed by another token
FlagCWithDirectory(command_list) ==
    \E k \in 1..(Len(command_list) - 1) : command_list[k] = "-C"

\* token lists the check of the command can be given
TokenLists == UNION {[1..n -> {"tar", "-C", "dir"}] : n \in 0..MaxTokens}

Invocations(s, arg) ==
    Cardinality({k \in 1..Len(cmds) :
                   cmds[k].tool = "docker" /\ cmds[k].about = s /\ cmds[k].arg = arg})

\* C18: at every point of a run each stack has at most one invocation of
\* "docker compose down" and at most one of "docker compose up -d",
\* whether the invocation succeeded or failed.
C18_NoRetry ==
    \A k \in StackIdx :
       /\ Invocations(stacks_to_process[k].name, <<"down">>) <= 1
       /\ Invocations(stacks_to_process[k].name, <<"up", "-d">>) <= 1

\* a finished run in which the stop of one stack failed and the start of
\* another failed, each invoked once
C18_Witness ==
    /\ pc = "done"
    /\ \E j, k \in 1..Len(calls) :
          /\ calls[j].fn = "down" /\ calls[j].ret = "False"
          /\ Logged("ERROR", "Failed", calls[j].about)
          /\ Invocations(calls[j].about, <<"down">>) = 1
          /\ calls[k].fn = "up" /\ calls[k].ret = "False"
          /\ Logged("ERROR", "Failed", calls[k].about)
          /\ Invocations(calls[k].about, <<"up", "-d">>) = 1

\* C19: a step that invokes the archive tool for a stack is taken only when
\* the stop step of that stack has returned success in this run and its
\* start has not been attempted: never for a stack whose stop failed, never
\* after the start attempt.
C19_ArchiveOnlyWhileStopped ==
    [][\A k \in (Len(cmds) + 1)..Len(cmds') :
          cmds'[k].tool = "tar" =>
             LET s == cmds'[k].about
             IN  /\ \E j \in 1..Len(calls) :
                       /\ calls[j].fn = "down" /\ calls[j].about = s
                       /\ calls[j].ret = "True"
                 /\ \A j \in 1..Len(calls) :
                       calls[j].about = s =>
                          /\ calls[j].fn # "up"
                          /\ calls[j].fn = "down" => calls[j].ret = "True"]_vars

\* the archive tool has been invoked for the second stack, which is stopped
\* and not yet started, after the first stack was skipped for its failed
\* stop without any invocation of the archive tool
C19_Witness ==
    /\ pc = "up"
    /\ idx = 2
    /\ Launched("tar", stacks_to_process[2].name)
    /\ ~Called("up", stacks_to_process[2].name)
    /\ \E j \in 1..Len(calls) :
          /\ calls[j].fn = "down" /\ calls[j].ret = "False"
          /\ calls[j].about = stacks_to_process[1].name
    /\ ~Launched("tar", stacks_to_process[1].name)

\* C20: when the report was transmitted, no ERROR is recorded after its
\* composition, and once the process has exited the status in the subject
\* and the first line of the report is SUCCESS if and only if the exit code
\* is 0 (FAILURE if and only if it is 1).
C20_DeliveredReportAgreesWithExitCode ==
    (report.composed /\ report.sent) =>
       /\ report.subject = report.status
       /\ \A k \in (report.log_len + 1)..Len(LOG_MESSAGES) :
             LOG_MESSAGES[k].level # "ERROR"
       /\ report.status = "SUCCESS" <=> BACKUP_SUCCESSFUL
       /\ Terminated =>
             /\ exitCode \in {0, 1}
             /\ report.status = "SUCCESS" <=> exitCode = 0

\* a transmitted FAILURE report and exit code 1
C20_Witness ==
    /\ pc = "done"
    /\ report.composed /\ report.sent
    /\ report.status = "FAILURE"
    /\ exitCode = 1
    /\ Len(LOG_MESSAGES) > report.log_len

====
